---- MODULE Spec2Model ----
(***************************************************************************)
(* A model of the console text editor of src/main.cpp: the line buffer,    *)
(* the cursor and the input loop of main().  One step of the model is what *)
(* main() does between two blocking reads of the console input: it handles *)
(* the event just read and runs the top of the next loop iteration.        *)
(*                                                                         *)
(* Rows and columns are 0-based as in the source; TLA+ sequences are       *)
(* 1-based, so line `row` of the buffer is buffer[row + 1].  A line is a   *)
(* sequence of one-character strings.                                      *)
(***************************************************************************)
EXTENDS Integers, Sequences, FiniteSets, TLC

VARIABLES
    argc,         \* main's argc
    inf,          \* std::ifstream inf of readFile: whether it opened, and its unread content
    buffer,       \* std::vector<std::string> buffer
    current_row,  \* int current_row
    current_col,  \* int current_col
    inputRecord,  \* INPUT_RECORD inputRecord: the last event read
    prev,         \* history: buffer, row and column when the last event was read
    pc,           \* where main() is: "start", "read", "confirm", "reprompt", "filename",
                  \* "save", "exit", "terminated"
    exitCode,     \* main's return value once pc = "exit"
    conMode,      \* the console's input mode (what GetConsoleMode(hStdin) would give)
    fdwSaveOldMode, \* DWORD fdwSaveOldMode
    caret,        \* the console's cursor position, [row, col]
    screen,       \* the console's screen: the text of each row, trailing blanks dropped
    redrawn,      \* history: the rows redrawLine was called for since the last event was read
    failedOp,     \* history: the last operation that reported a failure, or NoFailure
    stdin,        \* number of lines std::cin still holds before end-of-input
    outf,         \* what saveFile wrote to the file, or NotWritten
    script,       \* the key events the user will send, in order; <<>>: any events
    scriptPos,    \* how many events of the script were read
    observe       \* what a specification records: [history, screen]

vars == <<argc, inf, buffer, current_row, current_col, inputRecord, prev, pc, exitCode,
          conMode, fdwSaveOldMode, caret, screen, redrawn, failedOp, stdin, outf,
          script, scriptPos, observe>>

----------------------------------------------------------------------------
(* Bounds of the model *)

\* Enter is not sent once the buffer holds this many lines.
MaxLines == 3

\* Printable keys and Tab are not sent once the buffer would hold more characters.
MaxChars == 4

\* std::cin holds at most this many lines before its end-of-input.
MaxStdinLines == 2

----------------------------------------------------------------------------
(* Program constants *)

VK_BACK == 8
VK_TAB == 9
VK_RETURN == 13
VK_ESCAPE == 27
VK_SPACE == 32
VK_LEFT == 37
VK_UP == 38
VK_RIGHT == 39
VK_DOWN == 40

\* const std::unordered_set printableKeyCodes
printableKeyCodes ==
    {VK_SPACE, 226} \cup (48..57) \cup (65..90) \cup (186..192) \cup (219..223)

\* enum class ErrorType, cast to int by main's return statements
ErrNone == 0
CommandLineArgumentsError == 1
FileOpenError == 2
GetConsoleModeError == 3
SetConsoleModeError == 4
SetConsoleCursorPositionError == 5
GetStdHandleError == 6
ReadConsoleInputError == 7
GetConsoleScreenBufferInfoError == 8
GetConsoleCursorInfoError == 9
SetConsoleCursorInfoError == 10

\* "    ": the four spaces VK_TAB inserts
TabText == <<" ", " ", " ", " ">>

----------------------------------------------------------------------------
(* std::string and std::vector operations used by main *)

\* s.substr(pos, n)
Substr(s, pos, n) == SubSeq(s, pos + 1, pos + n)

\* s.substr(pos)
SubstrFrom(s, pos) == SubSeq(s, pos + 1, Len(s))

\* s.insert(pos, t)
StrInsert(s, pos, t) == SubSeq(s, 1, pos) \o t \o SubSeq(s, pos + 1, Len(s))

\* s.erase(pos, n)
StrErase(s, pos, n) == SubSeq(s, 1, pos) \o SubSeq(s, pos + n + 1, Len(s))

\* v.insert(v.begin() + idx, x), v.emplace(v.begin() + idx)
VecInsert(v, idx, x) == SubSeq(v, 1, idx) \o <<x>> \o SubSeq(v, idx + 1, Len(v))

\* v.erase(v.begin() + idx)
VecErase(v, idx) == SubSeq(v, 1, idx) \o SubSeq(v, idx + 2, Len(v))

\* v[idx] = x
VecSet(v, idx, x) == [v EXCEPT ![idx + 1] = x]

RECURSIVE TotalChars(_)
\* number of characters held by all lines of v
TotalChars(v) == IF v = <<>> THEN 0 ELSE Len(Head(v)) + TotalChars(Tail(v))

----------------------------------------------------------------------------
(* Inputs *)

\* std::ifstream inf{path} of a file that cannot be opened (!inf); also the
\* stream when no file is named
NoFile == [good |-> FALSE, content |-> <<>>]

\* std::ifstream inf{path} of a file holding `content`
OpenFile(content) == [good |-> TRUE, content |-> content]

\* Contents of the file named on the command line, as characters.
FileContents ==
    { <<>>,
      <<"\n">>,
      <<" ", "a", "\n">>,
      <<"a", " ">>,
      <<"a", "\n", " ", "\n">>,
      <<" ", "\n", "\n", "a", "\n">> }

\* uChar.AsciiChar of a key that produces no character
NUL == "NUL"

KeyEvent(down, code, ch) ==
    [EventType |-> "KEY_EVENT", bKeyDown |-> down, wVirtualKeyCode |-> code, AsciiChar |-> ch]

\* An input record that is not a key event
MouseEvent ==
    [EventType |-> "MOUSE_EVENT", bKeyDown |-> FALSE, wVirtualKeyCode |-> 0, AsciiChar |-> NUL]

\* The events ReadConsoleInput delivers when the user is free to send any.
AnyEvents ==
    { KeyEvent(TRUE, c, NUL) :
        c \in {VK_BACK, VK_TAB, VK_RETURN, VK_ESCAPE, VK_LEFT, VK_UP, VK_RIGHT, VK_DOWN} }
    \cup { KeyEvent(TRUE, 65, "a"), KeyEvent(TRUE, VK_SPACE, " ") }   \* the keys A and space
    \cup { KeyEvent(TRUE, 112, NUL) }                                 \* F1: not in printableKeyCodes
    \cup { KeyEvent(FALSE, 65, "a"), MouseEvent }                     \* a key-up, a non-key event

\* The keys H, I, Enter, Shift+1 and Escape, sent to type "hi", a line break and "!"
HiScript ==
    << KeyEvent(TRUE, 72, "h"), KeyEvent(TRUE, 73, "i"), KeyEvent(TRUE, VK_RETURN, NUL),
       KeyEvent(TRUE, 49, "!"), KeyEvent(TRUE, VK_ESCAPE, NUL) >>

\* One event of every other kind the loop tells apart
TourScript ==
    << KeyEvent(TRUE, VK_TAB, NUL), KeyEvent(TRUE, VK_LEFT, NUL), KeyEvent(TRUE, VK_UP, NUL),
       KeyEvent(TRUE, VK_DOWN, NUL), KeyEvent(TRUE, VK_RIGHT, NUL), KeyEvent(TRUE, VK_BACK, NUL),
       KeyEvent(TRUE, 112, NUL), MouseEvent, KeyEvent(TRUE, VK_ESCAPE, NUL) >>

\* The fixed sequences of events a user sends in the scripted specification
Scripts == {HiScript, TourScript}

\* The events ReadConsoleInput can deliver next, main being blocked in it: any,
\* or the next of the script
Events ==
    IF pc # "read" THEN {}
    ELSE IF script = <<>> THEN AnyEvents
    ELSE IF scriptPos < Len(script) THEN {script[scriptPos + 1]} ELSE {}

\* inputRecord before the first ReadConsoleInput
NoEvent ==
    [EventType |-> "NONE", bKeyDown |-> FALSE, wVirtualKeyCode |-> 0, AsciiChar |-> NUL]

\* The test of the event, had it left out bKeyDown
IsKeyEvent(ev) == ev.EventType = "KEY_EVENT"

\* inputRecord.EventType == KEY_EVENT && inputRecord.Event.KeyEvent.bKeyDown
IsKeyDown(ev) == ev.EventType = "KEY_EVENT" /\ ev.bKeyDown

RECURSIVE IndexOf(_, _, _)
\* the least index >= i of character c in stream s, or 0
IndexOf(s, c, i) ==
    IF i > Len(s) THEN 0
    ELSE IF s[i] = c THEN i
    ELSE IndexOf(s, c, i + 1)

RECURSIVE GetLines(_)
\* while (std::getline(inf, line)) tmp_buffer.push_back(line)
GetLines(stream) ==
    IF stream = <<>> THEN <<>>
    ELSE LET nl == IndexOf(stream, "\n", 1)
         IN  IF nl = 0 THEN <<stream>>
             ELSE <<SubSeq(stream, 1, nl - 1)>> \o GetLines(SubSeq(stream, nl + 1, Len(stream)))

----------------------------------------------------------------------------
(* The key handlers of the input loop, as functions of buffer, row, col *)

Cur(buf, row, col) == [buffer |-> buf, row |-> row, col |-> col]

\* OnUp keeping the column, clamped to the new line (not what main does)
OnUpClampsColumn(buf, row, col) ==
    IF row > 0
    THEN Cur(buf, row - 1, IF col < Len(buf[row]) THEN col ELSE Len(buf[row]))
    ELSE Cur(buf, row, col)

\* if (key_code == VK_UP)
OnUp(buf, row, col) ==
    IF row > 0
    THEN Cur(buf, row - 1, Len(buf[row]))
    ELSE Cur(buf, row, col)

\* else if (key_code == VK_DOWN)
OnDown(buf, row, col) ==
    IF row < Len(buf) - 1
    THEN Cur(buf, row + 1, Len(buf[row + 2]))
    ELSE Cur(buf, row, col)

\* OnLeft wrapping to the end of the line above at column 0 (not what main does)
OnLeftWraps(buf, row, col) ==
    IF col > 0
    THEN Cur(buf, row, col - 1)
    ELSE IF row > 0
         THEN Cur(buf, row - 1, Len(buf[row]))
         ELSE Cur(buf, row, col)

\* else if (key_code == VK_LEFT)
OnLeft(buf, row, col) ==
    IF col > 0
    THEN Cur(buf, row, col - 1)
    ELSE Cur(buf, row, col)

\* OnRight with the test current_col <= current_line.length() (not what main does)
OnRightPastEnd(buf, row, col) ==
    IF col <= Len(buf[row + 1])
    THEN Cur(buf, row, col + 1)
    ELSE Cur(buf, row, col)

\* else if (key_code == VK_RIGHT)
OnRight(buf, row, col) ==
    IF col < Len(buf[row + 1])
    THEN Cur(buf, row, col + 1)
    ELSE Cur(buf, row, col)

\* The VK_RETURN branch, had it not cut the current line down to firstPart
OnReturnKeepsLine(buf, row, col) ==
    LET current_line == buf[row + 1]
        new_row == row + 1
        new_buf ==
            IF col < Len(current_line)
            THEN VecInsert(buf, new_row, SubstrFrom(current_line, col))
            ELSE IF new_row = Len(buf) - 1
                 THEN Append(buf, <<>>)
                 ELSE VecInsert(buf, new_row, <<>>)
    IN  Cur(new_buf, new_row, 0)

\* OnReturn inserting secondPart before the line it was cut from (not what main does)
OnReturnInsertsAbove(buf, row, col) ==
    LET current_line == buf[row + 1]
        new_row == row + 1
        new_buf ==
            IF col < Len(current_line)
            THEN LET firstPart == Substr(current_line, 0, col)
                     secondPart == SubstrFrom(current_line, col)
                 IN  VecInsert(VecSet(buf, new_row - 1, firstPart), new_row - 1, secondPart)
            ELSE IF new_row = Len(buf) - 1
                 THEN Append(buf, <<>>)
                 ELSE VecInsert(buf, new_row, <<>>)
    IN  Cur(new_buf, new_row, 0)

\* else if (key_code == VK_RETURN)
OnReturn(buf, row, col) ==
    LET current_line == buf[row + 1]
        new_row == row + 1
        new_buf ==
            IF col < Len(current_line)
            THEN LET firstPart == Substr(current_line, 0, col)
                     secondPart == SubstrFrom(current_line, col)
                 IN  VecInsert(VecSet(buf, new_row - 1, firstPart), new_row, secondPart)
            ELSE IF new_row = Len(buf) - 1
                 THEN Append(buf, <<>>)
                 ELSE VecInsert(buf, new_row, <<>>)
    IN  Cur(new_buf, new_row, 0)

\* OnBack leaving the cursor at the end of the merged line (not what main does)
OnBackToMergedEnd(buf, row, col) ==
    LET current_line == buf[row + 1]
    IN  IF col = 0
        THEN IF row > 0
             THEN LET merged == VecSet(buf, row - 1, buf[row] \o current_line)
                  IN  Cur(VecErase(merged, row), row - 1, Len(merged[row]))
             ELSE Cur(buf, row, col)
        ELSE Cur(VecSet(buf, row, StrErase(current_line, col - 1, 1)), row, col - 1)

\* OnBack erasing the character at the cursor, current_line.erase(current_col, 1)
\* (not what main does)
OnBackErasesAtCursor(buf, row, col) ==
    LET current_line == buf[row + 1]
    IN  IF col = 0
        THEN IF row > 0
             THEN LET old_upper_line_length == Len(buf[row])
                      merged == VecSet(buf, row - 1, buf[row] \o current_line)
                  IN  Cur(VecErase(merged, row), row - 1, old_upper_line_length)
             ELSE Cur(buf, row, col)
        ELSE Cur(VecSet(buf, row, StrErase(current_line, col, 1)), row, col - 1)

\* OnBack without the guard current_row > 0 around the merge, erasing the first
\* character of the line at (0,0) instead (not what main does)
OnBackActsAtOrigin(buf, row, col) ==
    LET current_line == buf[row + 1]
    IN  IF col = 0
        THEN IF row > 0
             THEN LET old_upper_line_length == Len(buf[row])
                      merged == VecSet(buf, row - 1, buf[row] \o current_line)
                  IN  Cur(VecErase(merged, row), row - 1, old_upper_line_length)
             ELSE Cur(VecSet(buf, row, StrErase(current_line, 0, 1)), row, col)
        ELSE Cur(VecSet(buf, row, StrErase(current_line, col - 1, 1)), row, col - 1)

\* else if (key_code == VK_BACK)
OnBack(buf, row, col) ==
    LET current_line == buf[row + 1]
    IN  IF col = 0
        THEN IF row > 0
             THEN LET old_upper_line_length == Len(buf[row])
                      merged == VecSet(buf, row - 1, buf[row] \o current_line)
                  IN  Cur(VecErase(merged, row), row - 1, old_upper_line_length)
             ELSE Cur(buf, row, col)
        ELSE Cur(VecSet(buf, row, StrErase(current_line, col - 1, 1)), row, col - 1)

\* else if (key_code == VK_TAB)
OnTab(buf, row, col) ==
    Cur(VecSet(buf, row, StrInsert(buf[row + 1], col, TabText)), row, col + Len(TabText))

\* else if (printableKeyCodes.contains(key_code))
OnPrintable(buf, row, col, ch) ==
    Cur(VecSet(buf, row, StrInsert(buf[row + 1], col, <<ch>>)), row, col + 1)

----------------------------------------------------------------------------
(* The console.  The screen is as wide as any line is long and as tall as    *)
(* the buffer can get; a row is the text it shows up to its last non-blank.  *)
(* A specification that does not record the screen gives it no rows.         *)

\* the value of failedOp while no operation has reported a failure
NoFailure == "None"

\* the value of outf while saveFile has written nothing
NotWritten == [written |-> FALSE, text |-> <<>>]

\* the value of outf once saveFile has written `text`
Written(text) == [written |-> TRUE, text |-> text]

\* ENABLE_LINE_INPUT | ENABLE_ECHO_INPUT, the flags setupConsole clears
LineAndEcho == {"ENABLE_LINE_INPUT", "ENABLE_ECHO_INPUT"}

\* the input mode the console is in when the program starts
CookedMode == {"ENABLE_PROCESSED_INPUT"} \cup LineAndEcho

\* COORD {X, Y}
Coord(row, col) == [row |-> row, col |-> col]

\* what system("cls") leaves on the screen
BlankScreen == [r \in 0 .. MaxLines - 1 |-> <<>>]

\* the screen of a specification that does not record it
NoScreen == <<>>

\* the console after system("cls")
Cls == [screen |-> IF screen = NoScreen THEN NoScreen ELSE BlankScreen, caret |-> Coord(0, 0)]

RECURSIVE RTrim(_)
\* `text` without its trailing blanks, which show as nothing
RTrim(text) ==
    IF text # <<>> /\ text[Len(text)] = " "
    THEN RTrim(SubSeq(text, 1, Len(text) - 1))
    ELSE text

\* WriteConsole(hConsole, text) with the cursor at the start of `row`: the
\* text replaces what the row showed in its columns
WriteConsole(t, row, text) ==
    IF t.screen = NoScreen
    THEN t
    ELSE LET old == t.screen[row]
             shown == text \o SubSeq(old, Len(text) + 1, Len(old))
         IN  [t EXCEPT !.screen[row] = RTrim(shown)]

\* clearLine(row, consoleWidth): a full row of blanks, after which the cursor
\* has wrapped to the start of the next row
clearLine(t, row) ==
    IF t.screen = NoScreen
    THEN [t EXCEPT !.caret = Coord(row + 1, 0)]
    ELSE [t EXCEPT !.screen[row] = <<>>, !.caret = Coord(row + 1, 0)]

\* writeLine(row, text, col); col = -1 leaves the cursor at the end of the text
writeLine(t, row, text, col) ==
    [WriteConsole(t, row, text) EXCEPT
        !.caret = Coord(row, IF col = -1 THEN Len(text) ELSE col)]

\* redrawLine(row, text, consoleWidth, col)
redrawLine(t, row, text, col) == writeLine(clearLine(t, row), row, text, col)

RECURSIVE PrintLines(_, _, _)
\* std::cout << line << "\n" for the lines of buf from index i on
PrintLines(t, buf, i) ==
    IF i >= Len(buf)
    THEN [t EXCEPT !.caret = Coord(i, 0)]
    ELSE PrintLines(WriteConsole(t, i, buf[i + 1]), buf, i + 1)

\* renderBuffer(buffer)
renderBuffer(t, buf) == PrintLines(t, buf, 0)

\* A call main makes to draw: redrawLine(row, text, consoleWidth, col) or
\* clearLine(row, consoleWidth)
RedrawCall(row, text, col) == [op |-> "redrawLine", row |-> row, text |-> text, col |-> col]
ClearCall(row) == [op |-> "clearLine", row |-> row]

RECURSIVE Draw(_, _)
\* the console after the calls of `calls` made in order
Draw(t, calls) ==
    IF calls = <<>>
    THEN t
    ELSE LET c == Head(calls)
         IN  Draw(IF c.op = "redrawLine"
                  THEN redrawLine(t, c.row, c.text, c.col)
                  ELSE clearLine(t, c.row),
                  Tail(calls))

RECURSIVE RedrawnRows(_)
\* the rows of the redrawLine calls of `calls`, in order
RedrawnRows(calls) ==
    IF calls = <<>>
    THEN <<>>
    ELSE (IF Head(calls).op = "redrawLine" THEN <<Head(calls).row>> ELSE <<>>)
         \o RedrawnRows(Tail(calls))

\* for (int i = from; i < buffer.size(); ++i) redrawLine(i, buffer[i], consoleWidth)
RedrawFrom(buf, from) ==
    [k \in 1 .. (IF Len(buf) > from THEN Len(buf) - from ELSE 0) |->
        RedrawCall(from + k - 1, buf[from + k], -1)]

----------------------------------------------------------------------------
(* main() *)

NoPrev == Cur(<<>>, 0, 0)

\* What a specification records besides the program's own state: `history`
\* the last event with the state it was read in and the rows redrawn since,
\* `screen` the text the console shows, `failures` the failures of the console
\* calls whose result main does not test.
Observe(history, screen_, failures) ==
    [history |-> history, screen |-> screen_, failures |-> failures]

\* The states main() can start in, recording `obs`, the user sending one of `scripts`
Start(obs, scripts) ==
    /\ argc \in {1, 2, 3}
    /\ inf \in (IF argc = 2 THEN {OpenFile(c) : c \in FileContents} \cup {NoFile} ELSE {NoFile})
    /\ buffer = << <<>> >>            \* std::vector<std::string> buffer{1}
    /\ current_row = 0
    /\ current_col = 0
    /\ inputRecord = NoEvent
    /\ prev = NoPrev
    /\ pc = "start"
    /\ exitCode = ErrNone
    /\ conMode = CookedMode
    /\ fdwSaveOldMode = {}            \* DWORD fdwSaveOldMode; of static storage: 0
    /\ caret = Coord(0, 0)
    /\ screen = IF obs.screen THEN BlankScreen ELSE NoScreen
    /\ redrawn = <<>>
    /\ failedOp = NoFailure
    /\ stdin = MaxStdinLines
    /\ outf = NotWritten
    /\ script \in scripts
    /\ scriptPos = 0
    /\ observe = obs

Init == Start(Observe(TRUE, FALSE, FALSE), {<<>>})

\* setupConsole() succeeding on a console in mode `mode`
setupConsole(mode) == [conMode |-> mode \ LineAndEcho, fdwSaveOldMode |-> mode]

\* restoreConsole(): SetConsoleMode(hStdin, fdwSaveOldMode)
restoreConsole(con) == [con EXCEPT !.conMode = con.fdwSaveOldMode]

\* the console mode and the saved mode now
Console == [conMode |-> conMode, fdwSaveOldMode |-> fdwSaveOldMode]

\* the console mode and the saved mode become those of `con`
SetConsole(con) ==
    /\ conMode' = con.conMode
    /\ fdwSaveOldMode' = con.fdwSaveOldMode

\* return static_cast<int>(error): main's locals are gone, and what the console
\* shows no longer matters
Exit(code) ==
    /\ pc' = "exit"
    /\ exitCode' = code
    /\ buffer' = <<>>
    /\ current_row' = 0
    /\ current_col' = 0
    /\ inputRecord' = NoEvent
    /\ prev' = NoPrev
    /\ inf' = NoFile
    /\ caret' = Coord(0, 0)
    /\ screen' = Cls.screen
    /\ redrawn' = <<>>
    /\ UNCHANGED <<argc, script, scriptPos, observe>>

\* The top of the loop with the state `cur`, `ev` being the last event read:
\* buffer.at(current_row) throws std::out_of_range, which nothing catches, when
\* the row is no line of the buffer; otherwise redrawLine draws the current row
\* and main blocks in ReadConsoleInput.  (That redrawLine may fail instead is
\* the action RedrawLineFails.)
LoopTop(cur, ev, before) ==
    /\ pc' = IF cur.row >= Len(cur.buffer) THEN "terminated" ELSE "read"
    /\ buffer' = cur.buffer
    /\ current_row' = cur.row
    /\ current_col' = cur.col
    /\ inputRecord' = IF observe.history THEN ev ELSE NoEvent
    /\ prev' = IF observe.history THEN before ELSE NoPrev
    /\ inf' = [inf EXCEPT !.content = <<>>]
    /\ UNCHANGED <<argc, exitCode, stdin, outf, script, observe>>

\* The top of the loop, had it called redrawLine without the column (col = -1)
LoopTopCallsToLineEnd(cur) ==
    IF cur.row >= Len(cur.buffer)
    THEN <<>>
    ELSE <<RedrawCall(cur.row, cur.buffer[cur.row + 1], -1)>>

\* redrawLine(current_row, current_line, consoleWidth, current_col) at the top
\* of the loop; no call when buffer.at(current_row) throws
LoopTopCalls(cur) ==
    IF cur.row >= Len(cur.buffer)
    THEN <<>>
    ELSE <<RedrawCall(cur.row, cur.buffer[cur.row + 1], cur.col)>>

\* The console, being `t`, after the calls `calls` and the redrawLine at the
\* top of the loop with the state `cur`.  (`all` and `shown` are bound over
\* sets of one element, which names each value once it is computed.)
Shows(t, calls, cur) ==
    \E all \in {calls \o LoopTopCalls(cur)} :
        \E shown \in {Draw(t, all)} :
            /\ caret' = shown.caret
            /\ screen' = shown.screen
            /\ redrawn' = IF observe.history THEN RedrawnRows(all) ELSE <<>>

\* The console operations redrawLine and clearLine make, any of which can fail
DrawOps == {"SetConsoleCursorPosition", "GetConsoleCursorInfo", "SetConsoleCursorInfo"}

\* The error redrawLine returns when its operation `op` fails: hideCursor and
\* showCursor return GetConsoleCursorInfoError for either of their operations
RedrawLineError(op) ==
    IF op = "SetConsoleCursorPosition"
    THEN SetConsoleCursorPositionError
    ELSE GetConsoleCursorInfoError

\* Calls whose result main does not test may fail, which is recorded in
\* failedOp and changes nothing else in main; `ops` are the operations they make.
Untested(ops) ==
    failedOp' \in {failedOp} \cup (IF observe.failures THEN ops ELSE {})

\* if (argc > 2) return CommandLineArgumentsError
MainTooManyArgs ==
    /\ pc = "start"
    /\ argc > 2
    /\ failedOp' = "CommandLineArguments"
    /\ Exit(CommandLineArgumentsError)
    /\ UNCHANGED <<conMode, fdwSaveOldMode, stdin, outf>>

\* GetStdHandle gives INVALID_HANDLE_VALUE for the input or the output handle
MainGetStdHandleFails ==
    /\ pc = "start"
    /\ argc <= 2
    /\ failedOp' = "GetStdHandle"
    /\ Exit(GetStdHandleError)
    /\ UNCHANGED <<conMode, fdwSaveOldMode, stdin, outf>>

\* setupConsole: GetConsoleMode fails.  restoreConsole then sets the mode 0 that
\* fdwSaveOldMode still holds through the handle GetConsoleMode failed on, which
\* fails in the same way.
MainGetConsoleModeFails ==
    /\ pc = "start"
    /\ argc <= 2
    /\ failedOp' = "GetConsoleMode"
    /\ Exit(GetConsoleModeError)
    /\ UNCHANGED <<conMode, fdwSaveOldMode, stdin, outf>>

\* setupConsole: SetConsoleMode fails after GetConsoleMode saved the mode
MainSetConsoleModeFails ==
    /\ pc = "start"
    /\ argc <= 2
    /\ failedOp' = "SetConsoleMode"
    /\ Exit(SetConsoleModeError)
    /\ SetConsole(restoreConsole([Console EXCEPT !.fdwSaveOldMode = conMode]))
    /\ UNCHANGED <<stdin, outf>>

\* argc < 2: the buffer stays the one empty line it was constructed with.
\* The result of GetConsoleScreenBufferInfo is not tested.
MainNoFile ==
    /\ pc = "start"
    /\ argc < 2
    /\ SetConsole(setupConsole(conMode))
    /\ Untested({"GetConsoleScreenBufferInfo"})
    /\ Shows(Cls, <<>>, Cur(buffer, 0, 0))
    /\ LoopTop(Cur(buffer, 0, 0), NoEvent, NoPrev)
    /\ UNCHANGED scriptPos

\* argc == 2 and readFile cannot open the file
MainFileOpenError ==
    /\ pc = "start"
    /\ argc = 2
    /\ ~inf.good
    /\ failedOp' = "FileOpen"
    /\ Exit(FileOpenError)
    /\ SetConsole(restoreConsole(setupConsole(conMode)))
    /\ UNCHANGED <<stdin, outf>>

\* argc == 2: readFile replaces the buffer by the lines of the file, and
\* renderBuffer, whose result is not tested, prints them
MainReadFile ==
    /\ pc = "start"
    /\ argc = 2
    /\ inf.good
    /\ SetConsole(setupConsole(conMode))
    /\ Untested({"GetConsoleScreenBufferInfo", "SetConsoleCursorPosition"})
    /\ LET cur == Cur(GetLines(inf.content), 0, 0)
       IN  /\ Shows(renderBuffer(Cls, cur.buffer), <<>>, cur)
           /\ LoopTop(cur, NoEvent, NoPrev)
    /\ UNCHANGED scriptPos

\* if (!ReadConsoleInput(...)) return ReadConsoleInputError
ReadFails ==
    /\ pc = "read"
    /\ failedOp' = "ReadConsoleInput"
    /\ Exit(ReadConsoleInputError)
    /\ SetConsole(restoreConsole(Console))
    /\ UNCHANGED <<stdin, outf>>

\* The errors redrawLine can return: hideCursor and showCursor report
\* GetConsoleCursorInfoError, clearLine and writeLine SetConsoleCursorPositionError.
RedrawErrors == {RedrawLineError(op) : op \in DrawOps}

\* redrawLine at the top of the loop fails and main returns its error: on
\* entering the loop, or after an event was read and handled.  main's locals
\* are gone on return, so what the event was leaves no trace.
RedrawLineFails ==
    /\ \/ pc = "read"
       \/ pc = "start" /\ argc < 2
       \/ pc = "start" /\ argc = 2 /\ inf.good /\ GetLines(inf.content) # <<>>
    /\ \E op \in DrawOps :
        /\ failedOp' = op
        /\ Exit(RedrawLineError(op))
    /\ SetConsole(restoreConsole(IF pc = "start" THEN setupConsole(conMode) ELSE Console))
    /\ UNCHANGED <<stdin, outf>>

\* The VK_RETURN branch, had its loop started at current_row
DrawsOnReturnFromNewRow(res) == RedrawFrom(res.buffer, res.row)

\* the redrawLine calls of the VK_RETURN branch, which leaves the state `res`
DrawsOnReturn(res) == RedrawFrom(res.buffer, res.row - 1)

\* the redrawLine and clearLine calls of the VK_BACK branch taken in the state
\* `before`, which leaves the state `res`
DrawsOnBack(before, res) ==
    IF before.col = 0 /\ before.row > 0
    THEN RedrawFrom(res.buffer, res.row) \o <<ClearCall(Len(res.buffer) - 1)>>
    ELSE <<>>

\* the redrawLine call of the VK_TAB branch, which leaves the state `res`
DrawsOnTab(res) == <<RedrawCall(res.row, res.buffer[res.row + 1], res.col)>>

\* The calls that draw which the loop body makes for the event `ev` read in the
\* state `before` and handled with the result `res`
HandlerDraws(ev, before, res) ==
    IF ~IsKeyDown(ev) THEN <<>>
    ELSE IF ev.wVirtualKeyCode = VK_RETURN THEN DrawsOnReturn(res)
    ELSE IF ev.wVirtualKeyCode = VK_BACK THEN DrawsOnBack(before, res)
    ELSE IF ev.wVirtualKeyCode = VK_TAB THEN DrawsOnTab(res)
    ELSE <<>>

\* The event `ev` is read in the state `before` and handled with result `res`,
\* here `after`; the loop goes round.  The results of the calls that draw in the
\* loop body are not tested.
Handle(ev, res) ==
    \E before \in {Cur(buffer, current_row, current_col)}, after \in {res} :
        \E calls \in {HandlerDraws(ev, before, after)} :
            /\ pc = "read"
            /\ LoopTop(after, ev, before)
            /\ Shows([screen |-> screen, caret |-> caret], calls, after)
            /\ Untested(IF calls = <<>> THEN {} ELSE DrawOps)
            /\ scriptPos' = IF script = <<>> THEN scriptPos ELSE scriptPos + 1
            /\ UNCHANGED <<conMode, fdwSaveOldMode>>

\* key_code == VK_ESCAPE: break; then system("cls") and askForConfirmation
\* prompts and blocks in std::getline
KeyEscape ==
    \E ev \in Events :
        /\ pc = "read"
        /\ ev.wVirtualKeyCode = VK_ESCAPE
        /\ IsKeyDown(ev)
        /\ pc' = "confirm"
        /\ inputRecord' = IF observe.history THEN ev ELSE NoEvent
        /\ prev' = IF observe.history THEN Cur(buffer, current_row, current_col) ELSE NoPrev
        /\ caret' = Cls.caret
        /\ screen' = Cls.screen
        /\ redrawn' = <<>>
        /\ scriptPos' = IF script = <<>> THEN scriptPos ELSE scriptPos + 1
        /\ UNCHANGED <<argc, inf, buffer, current_row, current_col, exitCode,
                       conMode, fdwSaveOldMode, failedOp, stdin, outf, script, observe>>

KeyUp ==
    \E ev \in Events :
        /\ ev.wVirtualKeyCode = VK_UP
        /\ IsKeyDown(ev)
        /\ Handle(ev, OnUp(buffer, current_row, current_col))

KeyDown ==
    \E ev \in Events :
        /\ ev.wVirtualKeyCode = VK_DOWN
        /\ IsKeyDown(ev)
        /\ Handle(ev, OnDown(buffer, current_row, current_col))

KeyLeft ==
    \E ev \in Events :
        /\ ev.wVirtualKeyCode = VK_LEFT
        /\ IsKeyDown(ev)
        /\ Handle(ev, OnLeft(buffer, current_row, current_col))

KeyRight ==
    \E ev \in Events :
        /\ ev.wVirtualKeyCode = VK_RIGHT
        /\ IsKeyDown(ev)
        /\ Handle(ev, OnRight(buffer, current_row, current_col))

KeyReturn ==
    \E ev \in Events :
        /\ ev.wVirtualKeyCode = VK_RETURN
        /\ IsKeyDown(ev)
        /\ Len(buffer) < MaxLines
        /\ Handle(ev, OnReturn(buffer, current_row, current_col))

KeyBack ==
    \E ev \in Events :
        /\ ev.wVirtualKeyCode = VK_BACK
        /\ IsKeyDown(ev)
        /\ Handle(ev, OnBack(buffer, current_row, current_col))

KeyTab ==
    \E ev \in Events :
        /\ ev.wVirtualKeyCode = VK_TAB
        /\ IsKeyDown(ev)
        /\ TotalChars(buffer) + Len(TabText) <= MaxChars
        /\ Handle(ev, OnTab(buffer, current_row, current_col))

\* The key codes the if-chain tests before printableKeyCodes
SpecialKeys == {VK_ESCAPE, VK_UP, VK_DOWN, VK_LEFT, VK_RIGHT, VK_RETURN, VK_BACK, VK_TAB}

KeyPrintable ==
    \E ev \in Events :
        /\ ev.wVirtualKeyCode \in printableKeyCodes
        /\ ev.wVirtualKeyCode \notin SpecialKeys
        /\ IsKeyDown(ev)
        /\ TotalChars(buffer) < MaxChars
        /\ Handle(ev, OnPrintable(buffer, current_row, current_col, ev.AsciiChar))

\* Any other event: no branch of the loop body is taken.
Ignored ==
    \E ev \in Events :
        /\ ~(/\ IsKeyDown(ev)
             /\ ev.wVirtualKeyCode \in SpecialKeys \cup printableKeyCodes)
        /\ Handle(ev, Cur(buffer, current_row, current_col))

----------------------------------------------------------------------------
(* After the loop: askForConfirmation, the file name, saveFile *)

\* The lines the user may have typed on std::cin
AnswerLines == { <<"y">>, <<"Y", "e", "s">>, <<"n">>, <<"N", "o">>, <<"a">>, <<" ", "y">>, <<>> }

\* std::tolower of the characters AnswerLines holds
ToLower(ch) == IF ch = "Y" THEN "y" ELSE IF ch = "N" THEN "n" ELSE ch

\* What askForConfirmation makes of the line `input`
Answer(input) ==
    IF input # <<>> /\ ToLower(input[1]) = "y" THEN "yes"
    ELSE IF input # <<>> /\ ToLower(input[1]) = "n" THEN "no"
    ELSE "invalid"

RECURSIVE FileTextSeparated(_)
\* The file, had saveFile written '\n' between the lines only
FileTextSeparated(buf) ==
    IF buf = <<>> THEN <<>>
    ELSE IF Len(buf) = 1 THEN Head(buf)
    ELSE Head(buf) \o <<"\n">> \o FileTextSeparated(Tail(buf))

RECURSIVE FileText(_)
\* outf << line << '\n' for every line of buf
FileText(buf) ==
    IF buf = <<>> THEN <<>> ELSE Head(buf) \o <<"\n">> \o FileText(Tail(buf))

\* Past the loop main uses the buffer and argc only; current_row, current_col
\* and inputRecord are dead.
AfterLoop(next_pc) ==
    /\ pc' = next_pc
    /\ current_row' = 0
    /\ current_col' = 0
    /\ inputRecord' = NoEvent
    /\ prev' = NoPrev
    /\ UNCHANGED <<argc, inf, buffer, exitCode, conMode, fdwSaveOldMode, caret, screen,
                   redrawn, failedOp, outf, script, scriptPos, observe>>

\* std::getline gives a line starting with y or Y: askForConfirmation returns
\* true; main takes argv[1] as the file name or asks for one
AskYes ==
    /\ pc = "confirm"
    /\ stdin > 0
    /\ \E input \in AnswerLines : Answer(input) = "yes"
    /\ stdin' = stdin - 1
    /\ AfterLoop(IF argc = 2 THEN "save" ELSE "filename")

\* std::getline gives a line starting with n or N: askForConfirmation returns
\* false; restoreConsole(); return 0
AskNo ==
    /\ pc = "confirm"
    /\ stdin > 0
    /\ \E input \in AnswerLines : Answer(input) = "no"
    /\ stdin' = stdin - 1
    /\ Exit(ErrNone)
    /\ SetConsole(restoreConsole(Console))
    /\ UNCHANGED <<failedOp, outf>>

\* std::getline gives any other line
AskInvalid ==
    /\ pc = "confirm"
    /\ stdin > 0
    /\ \E input \in AnswerLines : Answer(input) = "invalid"
    /\ stdin' = stdin - 1
    /\ AfterLoop("reprompt")

\* std::getline meets the end of std::cin: `input` is left empty, or as it
\* was when the stream had failed before; neither starts with y or n
AskEof ==
    /\ pc = "confirm"
    /\ stdin' = 0
    /\ AfterLoop("reprompt")

\* std::cout << "Invalid input. ..."; the while (true) loop goes round
Reprompt ==
    /\ pc = "reprompt"
    /\ UNCHANGED stdin
    /\ AfterLoop("confirm")

\* std::getline(std::cin, filename) gives the name of a file
ReadFilename ==
    /\ pc = "filename"
    /\ stdin > 0
    /\ stdin' = stdin - 1
    /\ AfterLoop("save")

\* std::getline(std::cin, filename) meets the end of std::cin: the file name is
\* empty, the path is the current directory, which saveFile cannot open
ReadFilenameEof ==
    /\ pc = "filename"
    /\ stdin' = 0
    /\ failedOp' = "FileOpen"
    /\ Exit(FileOpenError)
    /\ SetConsole(restoreConsole(Console))
    /\ UNCHANGED outf

\* saveFile writes the buffer; restoreConsole(); return 0
SaveFile ==
    /\ pc = "save"
    /\ outf' = Written(FileText(buffer))
    /\ Exit(ErrNone)
    /\ SetConsole(restoreConsole(Console))
    /\ UNCHANGED <<failedOp, stdin>>

\* saveFile cannot open the file
SaveFileFails ==
    /\ pc = "save"
    /\ failedOp' = "FileOpen"
    /\ Exit(FileOpenError)
    /\ SetConsole(restoreConsole(Console))
    /\ UNCHANGED <<stdin, outf>>

\* The steps main takes past the loop
AfterEscape ==
    \/ AskYes
    \/ AskNo
    \/ AskInvalid
    \/ AskEof
    \/ Reprompt
    \/ ReadFilename
    \/ ReadFilenameEof
    \/ SaveFile
    \/ SaveFileFails

Next ==
    \/ MainTooManyArgs
    \/ MainGetStdHandleFails
    \/ MainGetConsoleModeFails
    \/ MainSetConsoleModeFails
    \/ MainNoFile
    \/ MainFileOpenError
    \/ MainReadFile
    \/ ReadFails
    \/ RedrawLineFails
    \/ KeyEscape
    \/ KeyUp
    \/ KeyDown
    \/ KeyLeft
    \/ KeyRight
    \/ KeyReturn
    \/ KeyBack
    \/ KeyTab
    \/ KeyPrintable
    \/ Ignored
    \/ AfterEscape

Spec == Init /\ [][Next]_vars

\* The console's screen is recorded instead of the history
InitTerm == Start(Observe(FALSE, TRUE, FALSE), {<<>>})
SpecTerm == InitTerm /\ [][Next]_vars

\* GetConsoleScreenBufferInfo fails and leaves csbi uninitialised, so that
\* consoleWidth is any int: with a negative one std::string spaces(consoleWidth, ' ')
\* in the first clearLine throws std::length_error, which nothing catches.
MainConsoleWidthThrows ==
    /\ pc = "start"
    /\ argc < 2 \/ (argc = 2 /\ inf.good)
    /\ failedOp' = "GetConsoleScreenBufferInfo"
    /\ SetConsole(setupConsole(conMode))
    /\ pc' = "terminated"
    /\ buffer' = IF argc = 2 THEN GetLines(inf.content) ELSE buffer
    /\ inf' = [inf EXCEPT !.content = <<>>]
    /\ UNCHANGED <<argc, current_row, current_col, inputRecord, prev, exitCode, caret,
                   screen, redrawn, stdin, outf, script, scriptPos, observe>>

\* The calls whose result main does not test can fail
InitFail == Start(Observe(FALSE, FALSE, TRUE), {<<>>})
NextFail == Next \/ MainConsoleWidthThrows
SpecFail == InitFail /\ [][NextFail]_vars

\* The user sends one of the scripts
InitScript == Start(Observe(TRUE, FALSE, FALSE), Scripts)
SpecScript == InitScript /\ [][Next]_vars

\* Past the loop main keeps running: std::getline returns at once when a line
\* or the end of the input is there
SpecLive == Init /\ [][Next]_vars /\ WF_vars(AfterEscape)

----------------------------------------------------------------------------
(* Properties.  `prev` holds the buffer and the cursor as they were when the *)
(* last event was read, so a state tells what the last key did.             *)

\* main is blocked in ReadConsoleInput and the last event handled was a
\* key-down of `code`
After(code) ==
    /\ pc = "read"
    /\ IsKeyDown(inputRecord)
    /\ inputRecord.wVirtualKeyCode = code

\* the line the cursor was on when the last event was read
PrevLine == prev.buffer[prev.row + 1]

\* the lines of v from row `from` (0-based) to the last
LinesFrom(v, from) == SubSeq(v, from + 1, Len(v))

\* the lines of v before row `to` (0-based)
LinesBefore(v, to) == SubSeq(v, 1, to)

Min(a, b) == IF a < b THEN a ELSE b

\* C1: once main is in the input loop (so after every key event, whatever the
\* document it started with), 0 <= row < lineCount and 0 <= column <= length(line[row]).
C1_CursorInBounds ==
    pc \in {"read", "confirm"} =>
        /\ 0 <= current_row
        /\ current_row < Len(buffer)
        /\ 0 <= current_col
        /\ current_col <= Len(buffer[current_row + 1])

\* A key was handled and left the cursor after the last character of the last
\* of several lines.
C1_Witness ==
    /\ pc = "read"
    /\ IsKeyDown(inputRecord)
    /\ current_row > 0
    /\ current_row = Len(buffer) - 1
    /\ current_col = Len(buffer[current_row + 1])
    /\ current_col > 0

\* C2: the document holds at least one line at startup, after loading any file
\* and after every key event (as long as main has not returned).
C2_AtLeastOneLine ==
    pc # "exit" => Len(buffer) >= 1

\* C3: Enter with the cursor at the end of line `row` inserts one empty line at
\* row+1, leaves lines 0..row unchanged, shifts the former lines row+1.. down by
\* one, and sets the cursor to (row+1, 0).
C3_EnterAtLineEnd ==
    (After(VK_RETURN) /\ prev.col = Len(PrevLine)) =>
        /\ buffer = LinesBefore(prev.buffer, prev.row + 1)
                        \o << <<>> >>
                        \o LinesFrom(prev.buffer, prev.row + 1)
        /\ current_row = prev.row + 1
        /\ current_col = 0

\* C4: with the cursor at a line end, Enter followed immediately by Backspace
\* restores the document and the cursor.
C4_EnterThenBackspace ==
    [][ ( /\ After(VK_RETURN)
          /\ prev.col = Len(PrevLine)
          /\ pc' = "read"
          /\ IsKeyDown(inputRecord')
          /\ inputRecord'.wVirtualKeyCode = VK_BACK )
        => ( /\ buffer' = prev.buffer
             /\ current_row' = prev.row
             /\ current_col' = prev.col ) ]_vars

\* C5: Enter with 0 <= column < line length makes line[row] the prefix
\* [0,column), inserts the suffix [column,end) as a new line at row+1, keeps all
\* other lines and their order, and sets the cursor to (row+1, 0); with column 0
\* the prefix line is empty and the suffix is the whole original line.
C5_EnterSplitsLine ==
    (After(VK_RETURN) /\ prev.col < Len(PrevLine)) =>
        /\ buffer = LinesBefore(prev.buffer, prev.row)
                        \o << SubSeq(PrevLine, 1, prev.col),
                              SubSeq(PrevLine, prev.col + 1, Len(PrevLine)) >>
                        \o LinesFrom(prev.buffer, prev.row + 1)
        /\ current_row = prev.row + 1
        /\ current_col = 0
        /\ prev.col = 0 =>
              /\ buffer[prev.row + 1] = <<>>
              /\ buffer[prev.row + 2] = PrevLine

\* Enter was pressed strictly inside a line that has a non-empty line after it.
C5_Witness ==
    /\ After(VK_RETURN)
    /\ 0 < prev.col
    /\ prev.col < Len(PrevLine)
    /\ prev.row < Len(prev.buffer) - 1
    /\ prev.buffer[prev.row + 2] # <<>>

\* C6 (as claimed): Up moves to row-1 when row > 0 and Down to row+1 when row is
\* not the last line, the new column being min(previous column, length of the
\* new line); at the first row Up and at the last row Down change nothing.
C6_UpDownClampColumn ==
    /\ After(VK_UP) =>
          /\ buffer = prev.buffer
          /\ IF prev.row > 0
             THEN /\ current_row = prev.row - 1
                  /\ current_col = Min(prev.col, Len(buffer[current_row + 1]))
             ELSE /\ current_row = prev.row
                  /\ current_col = prev.col
    /\ After(VK_DOWN) =>
          /\ buffer = prev.buffer
          /\ IF prev.row < Len(prev.buffer) - 1
             THEN /\ current_row = prev.row + 1
                  /\ current_col = Min(prev.col, Len(buffer[current_row + 1]))
             ELSE /\ current_row = prev.row
                  /\ current_col = prev.col

\* C6 (amended): as claimed, but the new column is the length of the new line:
\* the cursor lands after its last character, whatever the previous column.
C6_UpDownToLineEnd ==
    /\ After(VK_UP) =>
          /\ buffer = prev.buffer
          /\ IF prev.row > 0
             THEN /\ current_row = prev.row - 1
                  /\ current_col = Len(buffer[current_row + 1])
             ELSE /\ current_row = prev.row
                  /\ current_col = prev.col
    /\ After(VK_DOWN) =>
          /\ buffer = prev.buffer
          /\ IF prev.row < Len(prev.buffer) - 1
             THEN /\ current_row = prev.row + 1
                  /\ current_col = Len(buffer[current_row + 1])
             ELSE /\ current_row = prev.row
                  /\ current_col = prev.col

\* Up was pressed on a row > 0 with the column smaller than the length of the
\* line above.
C6_Witness ==
    /\ After(VK_UP)
    /\ prev.row > 0
    /\ prev.col < Len(prev.buffer[prev.row])

\* C7: Backspace at column 0 on a row > 0 appends line[row] to line[row-1],
\* removes line[row] (one line fewer, the others unchanged and in order), and
\* puts the cursor at (row-1, L), L the length of line[row-1] before the merge.
C7_BackspaceMerges ==
    (After(VK_BACK) /\ prev.col = 0 /\ prev.row > 0) =>
        /\ buffer = LinesBefore(prev.buffer, prev.row - 1)
                        \o << prev.buffer[prev.row] \o PrevLine >>
                        \o LinesFrom(prev.buffer, prev.row + 1)
        /\ Len(buffer) = Len(prev.buffer) - 1
        /\ current_row = prev.row - 1
        /\ current_col = Len(prev.buffer[prev.row])

\* Backspace merged a non-empty line into a non-empty upper line, with a line
\* after them.
C7_Witness ==
    /\ After(VK_BACK)
    /\ prev.col = 0
    /\ prev.row > 0
    /\ prev.buffer[prev.row] # <<>>
    /\ PrevLine # <<>>
    /\ prev.row < Len(prev.buffer) - 1

\* main is blocked in ReadConsoleInput and the last event handled was a
\* printable key
AfterPrintable ==
    /\ pc = "read"
    /\ IsKeyDown(inputRecord)
    /\ inputRecord.wVirtualKeyCode \in printableKeyCodes

\* C8: typing a printable character and then pressing Backspace restores the
\* document (every line) and the cursor.
C8_TypeThenBackspace ==
    [][ ( /\ AfterPrintable
          /\ pc' = "read"
          /\ IsKeyDown(inputRecord')
          /\ inputRecord'.wVirtualKeyCode = VK_BACK )
        => ( /\ buffer' = prev.buffer
             /\ current_row' = prev.row
             /\ current_col' = prev.col ) ]_vars

\* A character was typed strictly inside a line, between two different
\* characters, on a row > 0: the state Backspace is pressed in.
C8_Witness ==
    /\ AfterPrintable
    /\ prev.row > 0
    /\ 0 < prev.col
    /\ prev.col < Len(PrevLine)
    /\ PrevLine[prev.col] # PrevLine[prev.col + 1]

\* C9: Backspace at (0,0) changes no line and leaves the cursor at (0,0); and
\* in a document of one line with the cursor at its end, Backspace removes the
\* last character and moves the cursor one left, so three Backspaces empty a
\* three-character line to [""] at (0,0), where a fourth changes nothing.
C9_BackspaceAtOrigin ==
    /\ (After(VK_BACK) /\ prev.row = 0 /\ prev.col = 0) =>
          /\ buffer = prev.buffer
          /\ current_row = 0
          /\ current_col = 0
    /\ (After(VK_BACK) /\ Len(prev.buffer) = 1 /\ prev.col = Len(PrevLine) /\ prev.col > 0) =>
          /\ buffer = << SubSeq(PrevLine, 1, prev.col - 1) >>
          /\ current_row = 0
          /\ current_col = prev.col - 1

\* Backspace was pressed at (0,0) of a document whose first line is not empty
\* and which has more lines.
C9_Witness ==
    /\ After(VK_BACK)
    /\ prev.row = 0
    /\ prev.col = 0
    /\ PrevLine # <<>>
    /\ Len(prev.buffer) > 1

\* C10: Left and Right change neither the row nor the document; Left decreases
\* the column by 1 when it is > 0 and does nothing at column 0; Right increases
\* it by 1 when it is < the line length and does nothing at the line end.
C10_LeftRight ==
    /\ After(VK_LEFT) =>
          /\ buffer = prev.buffer
          /\ current_row = prev.row
          /\ current_col = IF prev.col > 0 THEN prev.col - 1 ELSE prev.col
    /\ After(VK_RIGHT) =>
          /\ buffer = prev.buffer
          /\ current_row = prev.row
          /\ current_col = IF prev.col < Len(PrevLine) THEN prev.col + 1 ELSE prev.col

\* Left was pressed at column 0 of a row > 0 below a non-empty line.
C10_Witness ==
    /\ After(VK_LEFT)
    /\ prev.col = 0
    /\ prev.row > 0
    /\ prev.buffer[prev.row] # <<>>

----------------------------------------------------------------------------
(* The console's screen and cursor *)

\* the screen shows the lines of the buffer, each in the row of its index, and
\* nothing in the rows below them
ScreenShowsBuffer ==
    \A r \in DOMAIN screen :
        screen[r] = IF r < Len(buffer) THEN RTrim(buffer[r + 1]) ELSE <<>>

\* C11: whenever main is blocked in ReadConsoleInput, every row of the screen
\* below the line count shows the text of the line of that index and blanks
\* only after it, and the rows from the line count on show nothing.
C11_ScreenConsistent == pc = "read" => ScreenShowsBuffer

\* C12: whenever main is blocked in ReadConsoleInput, the console's cursor is
\* at the row and the column of the editor's cursor, whatever the last event
\* was and whatever rows its handler redrew.
C12_CaretAtCursor == pc = "read" => caret = Coord(current_row, current_col)

\* a merging Backspace redrew two rows and cleared one, leaving the console's
\* cursor elsewhere, and the cursor is inside the merged line
C12_Witness ==
    /\ After(VK_BACK)
    /\ prev.col = 0
    /\ prev.row > 0
    /\ Len(redrawn) > 2
    /\ 0 < current_col
    /\ current_col < Len(buffer[current_row + 1])
    /\ caret = Coord(current_row, current_col)

----------------------------------------------------------------------------
(* Failures *)

\* The operations on the console that can report a failure during the session
TerminalOps ==
    DrawOps \cup {"ReadConsoleInput", "GetConsoleScreenBufferInfo"}

\* C13: once an operation on the console has reported a failure, the session
\* is over: main has returned with an error, so it is not in the loop, reads
\* no further key and asks nothing.
C13_FailureEndsSession ==
    failedOp \in TerminalOps => pc = "exit" /\ exitCode # ErrNone

\* C14: however the program ends, by returning from main or by an exception
\* nothing catches, the console's input mode is the one it had when the
\* program started.
C14_ModeRestored ==
    pc \in {"exit", "terminated"} => conMode = CookedMode

\* enum class ErrorType: the value named after each kind of failure
ErrorTypeOf(kind) ==
    CASE kind = "CommandLineArguments" -> CommandLineArgumentsError
      [] kind = "FileOpen" -> FileOpenError
      [] kind = "GetConsoleMode" -> GetConsoleModeError
      [] kind = "SetConsoleMode" -> SetConsoleModeError
      [] kind = "SetConsoleCursorPosition" -> SetConsoleCursorPositionError
      [] kind = "GetStdHandle" -> GetStdHandleError
      [] kind = "ReadConsoleInput" -> ReadConsoleInputError
      [] kind = "GetConsoleScreenBufferInfo" -> GetConsoleScreenBufferInfoError
      [] kind = "GetConsoleCursorInfo" -> GetConsoleCursorInfoError
      [] kind = "SetConsoleCursorInfo" -> SetConsoleCursorInfoError
      [] OTHER -> ErrNone

\* C15: when main returns after an operation failed, its exit status is the
\* non-zero value of that operation's own kind, no two kinds sharing one; and
\* the exit status is 0 only when nothing failed.
C15_OwnExitStatus ==
    pc = "exit" =>
        /\ failedOp # NoFailure => exitCode = ErrorTypeOf(failedOp) /\ exitCode # ErrNone
        /\ exitCode = ErrNone => failedOp = NoFailure

----------------------------------------------------------------------------
(* Scenario *)

\* the loop has just been left by Escape
LoopLeft ==
    /\ pc = "confirm"
    /\ IsKeyDown(inputRecord)
    /\ inputRecord.wVirtualKeyCode = VK_ESCAPE

\* C16: started without a file, so with one empty line and the cursor at
\* (0,0), and sent the keys h, i, Enter, ! and Escape, the editor leaves the
\* loop with the lines "hi" and "!" and the cursor at (1,1), and what a
\* confirmed save writes is "hi", a line terminator, "!", a line terminator.
C16_HiScenario ==
    script = HiScript /\ argc < 2 =>
        /\ LoopLeft =>
              /\ buffer = << <<"h", "i">>, <<"!">> >>
              /\ current_row = 1
              /\ current_col = 1
        /\ pc = "exit" /\ outf.written => outf.text = <<"h", "i", "\n", "!", "\n">>

\* the scenario was played to its end and the file was saved
C16_Witness ==
    /\ script = HiScript
    /\ argc < 2
    /\ scriptPos = Len(HiScript)
    /\ pc = "exit"
    /\ exitCode = ErrNone
    /\ outf = Written(<<"h", "i", "\n", "!", "\n">>)

----------------------------------------------------------------------------
(* Events the loop ignores, rows redrawn, characters kept *)

\* `ev` is not a key event, or a key-up, or a key-down of a key that is neither
\* Escape, an arrow, Enter, Backspace, Tab nor in the printable set
IgnoredEvent(ev) ==
    \/ ev.EventType # "KEY_EVENT"
    \/ ~ev.bKeyDown
    \/ /\ ev.wVirtualKeyCode \notin SpecialKeys
       /\ ev.wVirtualKeyCode \notin printableKeyCodes

\* C17: when the last event read was one the loop ignores, the buffer and the
\* cursor are what they were when it was read, and main is in the loop again,
\* blocked in ReadConsoleInput.
C17_IgnoredEvents ==
    inputRecord # NoEvent /\ IgnoredEvent(inputRecord) =>
        /\ pc = "read"
        /\ Cur(buffer, current_row, current_col) = prev

\* a key-up of the printable key A was read with the cursor inside a document
\* of two lines
C17_Witness ==
    /\ pc = "read"
    /\ inputRecord = KeyEvent(FALSE, 65, "a")
    /\ Len(buffer) = 2
    /\ current_row = 1
    /\ current_col > 0
    /\ Cur(buffer, current_row, current_col) = prev

\* the set of the rows redrawLine was called for since the last event was read
RowsRedrawn == {redrawn[i] : i \in DOMAIN redrawn}

\* the rows the loop body redrew, which the redrawLine at the top of the loop follows
EditPass == SubSeq(redrawn, 1, Len(redrawn) - 1)

\* the rows of `rows` are in ascending order, none twice
Ascending(rows) == \A i \in 1 .. Len(rows) - 1 : rows[i] < rows[i + 1]

\* C18: between an editing key and the next blocking read the rows redrawLine
\* is called for are exactly the dirty rows: the cursor row alone after a
\* printable key, Tab or Backspace at a column > 0; every row from the original
\* row to the new last line after Enter; every row from the merged row (row-1)
\* to the new last line after a merging Backspace.  The loop body redraws its
\* rows in ascending order; the redrawLine of the cursor row at the top of the
\* loop comes last.
C18_RedrawnRows ==
    pc = "read" =>
        /\ AfterPrintable \/ After(VK_TAB) \/ (After(VK_BACK) /\ prev.col > 0) =>
              /\ RowsRedrawn = {prev.row}
              /\ current_row = prev.row
        /\ After(VK_RETURN) =>
              RowsRedrawn = prev.row .. Len(buffer) - 1
        /\ After(VK_BACK) /\ prev.col = 0 /\ prev.row > 0 =>
              RowsRedrawn = prev.row - 1 .. Len(buffer) - 1
        /\ inputRecord # NoEvent =>
              /\ Ascending(EditPass)
              /\ redrawn[Len(redrawn)] = current_row

\* Enter on the first of two lines redrew the rows 0, 1, 2 and then the cursor row
C18_Witness ==
    /\ After(VK_RETURN)
    /\ prev.row = 0
    /\ redrawn = <<0, 1, 2, 1>>

RECURSIVE Concat(_)
\* the characters of all lines of v in order
Concat(v) == IF v = <<>> THEN <<>> ELSE Head(v) \o Concat(Tail(v))

\* the last event handled was a Backspace at column 0 below the first row
AfterMerge == After(VK_BACK) /\ prev.col = 0 /\ prev.row > 0

\* C19: Enter and a merging Backspace keep the concatenation of all lines as
\* it was; Enter makes the document one line longer, a merging Backspace one
\* line shorter, and after any other event the line count is what it was.
C19_CharactersKept ==
    pc = "read" /\ inputRecord # NoEvent =>
        /\ After(VK_RETURN) =>
              /\ Concat(buffer) = Concat(prev.buffer)
              /\ Len(buffer) = Len(prev.buffer) + 1
        /\ AfterMerge =>
              /\ Concat(buffer) = Concat(prev.buffer)
              /\ Len(buffer) = Len(prev.buffer) - 1
        /\ ~After(VK_RETURN) /\ ~AfterMerge =>
              Len(buffer) = Len(prev.buffer)

\* Enter split a line between two of its characters
C19_Witness ==
    /\ After(VK_RETURN)
    /\ 0 < prev.col
    /\ prev.col < Len(PrevLine)
    /\ Concat(buffer) = Concat(prev.buffer)
    /\ Len(buffer) = Len(prev.buffer) + 1

----------------------------------------------------------------------------
(* After Escape *)

\* C20: once the loop is left by Escape and askForConfirmation prompts, main
\* eventually returns, whatever std::cin holds, the end of the input included.
C20_Terminates == (pc = "confirm") ~> (pc = "exit")

============================================================================
